---- MODULE Spec2Model ----
(***************************************************************************)
(* A model of logrun's experiment capture-and-archival engine              *)
(* (src/logrun/internals.py): the Experiment object, its registration      *)
(* operations, the two `tee` duplication processes that capture stdout and *)
(* stderr, and save_experiment, the finalizer run by the atexit hook.      *)
(***************************************************************************)
EXTENDS Integers, Sequences, FiniteSets, TLC

(***************************************************************************)
(* Bounds of the model.                                                    *)
(***************************************************************************)
\* registrations (add_output_file / add_input_file / add_extra_key) per run
MaxCalls == 3
\* registrations per run of the extra-key store taken alone (SpecStore)
MaxStoreCalls == 4
\* explicit calls of save_experiment made by the program before it exits
MaxManualSaves == 1
\* bytes the program writes to stdout and stderr together (SpecCapture)
MaxWrites == 2
\* characters of a declared path (SpecEscape)
MaxPathLen == 2
\* elements accumulated under one key (SpecNames)
MaxElems == 11
\* largest amount of available memory, in bytes (SpecChecksum)
MaxMem == 700

\* xxhash.xxh3_64().block_size
BlockSize == 32

(***************************************************************************)
(* Input domains.  A path and a key are strings, modelled as sequences of  *)
(* characters so that the escaping and the naming of the archive entries   *)
(* are computed character by character, as the code does.                  *)
(***************************************************************************)
Paths == { <<"/", "a">>, <<"/", "b">> }
Keys == { <<"k">>, <<"m">> }
Values == { "v1", "v2" }
\* a value that implements Artifact, and keys spelled like the file names
\* derived from the key "k" (SpecKeys)
ArtifactValue == "artifact"
DerivedKeys == { << "k" >>, << "k", ".", "0" >>,
                 << "k", ".", "r", "e", "a", "d" >> }
Data == { "x", "y" }
Streams == { "stdout", "stderr" }
FileKinds == { "absent", "file", "dir" }

\* every file path of at most MaxPathLen characters (a file path does not end
\* in the separator), over the path separator, the character the escaping
\* replaces it by, and one ordinary character
PathChars == { "/", "%", "a" }
PathStrings ==
    { p \in UNION { [1..n -> PathChars] : n \in 1..MaxPathLen } : p[Len(p)] # "/" }

\* bytes of the user's files: what every file holds when the process starts,
\* and what the files may be rewritten with
InitialContent == << 1 >>
FileData == { << 1 >>, << 2 >> }

\* what can be at a path handed to eval_checksum: a regular file with its
\* bytes, a directory with its named entries, or neither
Node(kind, data, children) == [kind |-> kind, data |-> data, children |-> children]
FileNode(data) == Node("file", data, {})
DirNode(children) == Node("dir", << >>, children)
OtherNode == Node("other", << >>, {})
Entry(name, node) == [name |-> name, node |-> node]

\* file contents: n bytes, all different from their neighbours
Bytes(n, first) == [i \in 1..n |-> (first + i - 1) % 256]
FileSizes == { 0, 1, BlockSize + 1, 2 * BlockSize + 6 }
BigFiles == { FileNode(Bytes(n, first)) : n \in FileSizes, first \in { 0, 1 } }
SmallFiles == { FileNode(<< 1 >>), FileNode(<< 2 >>) }
FlatDirs ==
    { DirNode({}) } \cup
    { DirNode({ Entry("a", f), Entry("k", g) }) : f, g \in SmallFiles }
DeepDirs ==
    { DirNode({ Entry("a", d), Entry("m", f) }) : d \in FlatDirs, f \in SmallFiles }
Targets == BigFiles \cup FlatDirs \cup DeepDirs \cup { OtherNode }

\* the digest of a hash state that was fed `bytes`
XXH(bytes) == [xxh3_64 |-> bytes]

\* what finalize itself prints on stdout
Banner == "banner"
WarningLine == "warning"

(***************************************************************************)
(* Python values held by extra_keys: a caller's value, or the list the     *)
(* store builds for a key in multiple mode.                                *)
(***************************************************************************)
Scalar(v) == [kind |-> "scalar", val |-> v]
List(items) == [kind |-> "list", items |-> items]

VARIABLES
    \* the process and its environment
    pc,            \* where the main thread is
    exiting,       \* the interpreter is shutting down (atexit hooks run)
    exc,           \* the exception the running/last save_experiment raised
    idx,           \* loop index of the output / input loops of the finalizer
    root_set,      \* LOGRUN_ROOT is defined in the environment
    userfs,        \* kind of what is at each user path
    \* the Experiment object
    has_content, output_files, input_files, extra_keys, multiple,
    \* the capture files and the duplication processes
    capfile,       \* per stream: the temp file, [exists, data]
    pipe,          \* per stream: bytes in the pipe feeding its tee
    tpc, tbuf,     \* per stream: tee's position and its buffer
    console,       \* per original destination: bytes delivered to it
    \* the archive root
    dirs,          \* directories that exist under the root
    workfiles,     \* fixed-name files in the working directory
    stream_copies, \* per stream: stdout.out / stderr.out, [exists, data]
    out_copies,    \* file names in output_files/
    extra_files,   \* file names in extra_keys/
    symlinks,      \* index symlinks, <<"out" | "in", escaped path>>
    archive,       \* all_experiments/<id>.tar.gz
    \* history (read by the properties only)
    hist,          \* per key: values registered since created / overwritten
    warnings,      \* warnings emitted so far, in order
    written,       \* per stream: bytes the program wrote before finalize
    calls,         \* registrations made
    started,       \* save_experiment invocations begun
    completed,     \* save_experiment invocations that returned normally
    content,       \* bytes of the regular file at each user path
    input_pickle,  \* input_files.pickle in the working directory
    \* two processes finalizing under one root
    ppc,           \* per process: where its save_experiment is
    pstep,         \* per process: which directory it is ensuring
    pexc,          \* per process: the exception its save_experiment raised
    rdirs,         \* directories that exist under the shared root
    rsymlinks,     \* index symlinks under the shared root, by process
    rarchives,     \* archives under the shared root, by process
    \* one evaluation of eval_checksum
    cpc,           \* where the evaluation is
    target,        \* what is at the path it was called on
    stack,         \* what remains to be visited, next first
    state,         \* bytes fed to the hash state so far, in order
    pos,           \* offset of the file being read in chunks
    chunksize,     \* chunk size chosen for the file being read in chunks
    nchunks,       \* non-empty chunks read from that file
    strategy,      \* how the last regular file was read
    digest         \* the value returned

single_vars == << pc, exiting, exc, idx, root_set, userfs,
           has_content, output_files, input_files, extra_keys, multiple,
           capfile, pipe, tpc, tbuf, console,
           dirs, workfiles, stream_copies, out_copies, extra_files, symlinks,
           archive, hist, warnings, written, calls, started, completed,
           content, input_pickle >>

race_vars == << ppc, pstep, pexc, rdirs, rsymlinks, rarchives >>

program_vars == << single_vars, race_vars >>

checksum_vars == << cpc, target, stack, state, pos, chunksize, nchunks,
                    strategy, digest >>

vars == << program_vars, checksum_vars >>

experiment_vars == << has_content, output_files, input_files, extra_keys,
                      multiple, hist >>
stream_vars == << pipe, tpc, tbuf, console, written >>
root_vars == << dirs, workfiles, stream_copies, out_copies, extra_files,
                symlinks, archive, input_pickle >>
control_vars == << exiting, exc, idx, started, completed >>

NoFile == [exists |-> FALSE, data |-> << >>]
EmptyFile == [exists |-> TRUE, data |-> << >>]
\* input_files.pickle: the dictionary it holds, as its set of
\* <<path, digest>> items
NoPickle == [exists |-> FALSE, items |-> {}]
Pickle(items) == [exists |-> TRUE, items |-> items]

NoArchive == [exists |-> FALSE, workfiles |-> {},
              streams |-> [s \in Streams |-> NoFile],
              outs |-> {}, extras |-> {}, inputs |-> NoPickle]

(***************************************************************************)
(* Initial state: the process has started, `logrun.internals` is not yet   *)
(* imported.  The environment (LOGRUN_ROOT, the user's files) is arbitrary.*)
(***************************************************************************)
InitProcess ==
    /\ pc = "start"
    /\ exiting = FALSE
    /\ exc = "none"
    /\ idx = 1
    /\ has_content = FALSE
    /\ output_files = << >>
    /\ input_files = << >>
    /\ extra_keys = << >>
    /\ multiple = << >>
    /\ capfile = [s \in Streams |-> NoFile]
    /\ pipe = [s \in Streams |-> << >>]
    /\ tpc = [s \in Streams |-> "off"]
    /\ tbuf = [s \in Streams |-> << >>]
    /\ console = [s \in Streams |-> << >>]
    /\ dirs = {}
    /\ workfiles = {}
    /\ stream_copies = [s \in Streams |-> NoFile]
    /\ out_copies = {}
    /\ extra_files = {}
    /\ symlinks = {}
    /\ archive = NoArchive
    /\ hist = << >>
    /\ warnings = << >>
    /\ written = [s \in Streams |-> << >>]
    /\ calls = 0
    /\ started = 0
    /\ completed = 0
    /\ content = [p \in Paths |-> InitialContent]
    /\ input_pickle = NoPickle

\* path.replace(os.sep, '%')
Escape(path) == [i \in 1..Len(path) |-> IF path[i] = "/" THEN "%" ELSE path[i]]

\* the two processes of SpecRace, their Experiments with ids 1 and 2
Procs == { 1, 2 }

\* lines 220-226 and 280-281: the directories one save_experiment ensures, in
\* order: its own working directory, the two index directories, and the
\* index directory of the output path both processes declared
OwnDir(q) == << "all_experiments", q >>
OutIndexDir == << "experiments_by_output_file", Escape(<< "/", "a" >>) >>
EnsuredDirs(q) == << OwnDir(q), << "experiments_by_output_file" >>,
                     << "experiments_by_input_file" >>, OutIndexDir >>
SharedDirs == { << "experiments_by_output_file" >>,
                << "experiments_by_input_file" >>, OutIndexDir }

\* no second process
NoRace ==
    /\ ppc = [q \in Procs |-> "off"]
    /\ pstep = [q \in Procs |-> 1]
    /\ pexc = [q \in Procs |-> "none"]
    /\ rdirs = {}
    /\ rsymlinks = {}
    /\ rarchives = {}

\* no evaluation of eval_checksum under way
NoChecksum ==
    /\ cpc = "idle"
    /\ target = OtherNode
    /\ stack = << >>
    /\ state = << >>
    /\ pos = 0
    /\ chunksize = 0
    /\ nchunks = 0
    /\ strategy = "none"
    /\ digest = XXH(<< >>)

Init ==
    /\ root_set \in BOOLEAN
    /\ userfs \in [Paths -> FileKinds]
    /\ InitProcess
    /\ NoChecksum
    /\ NoRace

(***************************************************************************)
(* Experiment.__init__ and the module-level `experiment = Experiment()`:   *)
(* the fields are initialised, the two temp files are created empty, the   *)
(* two tee processes are spawned and fd 1 / fd 2 are redirected to them.   *)
(* LOGRUN_ROOT is not read here.                                           *)
(***************************************************************************)
Experiment_init ==
    /\ pc = "start"
    /\ pc' = "main"
    /\ has_content' = FALSE
    /\ output_files' = << >>
    /\ input_files' = << >>
    /\ extra_keys' = << >>
    /\ multiple' = << >>
    /\ capfile' = [s \in Streams |-> EmptyFile]
    /\ tpc' = [s \in Streams |-> "read"]
    /\ UNCHANGED << exiting, exc, idx, root_set, userfs, pipe, tbuf, console,
                    root_vars, hist, warnings, written, calls, started,
                    completed,
                    content >>

(***************************************************************************)
(* Registration operations.                                                *)
(***************************************************************************)
\* the path put in front of the list
add_output_file_prepend(path) ==
    /\ pc = "main"
    /\ has_content' = TRUE
    /\ output_files' = << path >> \o output_files
    /\ calls' = calls + 1
    /\ UNCHANGED << pc, control_vars, root_set, userfs, input_files,
                    extra_keys, multiple, hist, capfile, stream_vars,
                    root_vars, warnings, content >>

\* lines 152-158
add_output_file(path) ==
    /\ pc = "main"
    /\ has_content' = TRUE
    /\ output_files' = Append(output_files, path)
    /\ calls' = calls + 1
    /\ UNCHANGED << pc, control_vars, root_set, userfs, input_files,
                    extra_keys, multiple, hist, capfile, stream_vars,
                    root_vars, warnings,
                    content >>

add_input_file_no_flag(path) ==
    /\ pc = "main"
    /\ input_files' = Append(input_files, path)
    /\ calls' = calls + 1
    /\ UNCHANGED << pc, control_vars, root_set, userfs, has_content,
                    output_files, extra_keys, multiple, hist, capfile,
                    stream_vars, root_vars, warnings,
                    content >>

add_input_file(path) ==
    /\ pc = "main"
    /\ has_content' = TRUE
    /\ input_files' = Append(input_files, path)
    /\ calls' = calls + 1
    /\ UNCHANGED << pc, control_vars, root_set, userfs, output_files,
                    extra_keys, multiple, hist, capfile, stream_vars,
                    root_vars, warnings,
                    content >>

\* a new key stored as a one-element list
StoredAfter_new_as_list(ek, mult, key, value, overwrite) ==
    IF key \in DOMAIN ek
    THEN IF overwrite THEN Scalar(value)
         ELSE IF mult[key] THEN List(Append(ek[key].items, value))
              ELSE List(<< ek[key].val, value >>)
    ELSE List(<< value >>)

StoredAfter_prepend(ek, mult, key, value, overwrite) ==
    IF key \in DOMAIN ek
    THEN IF overwrite THEN Scalar(value)
         ELSE IF mult[key] THEN List(<< value >> \o ek[key].items)
              ELSE List(<< value, ek[key].val >>)
    ELSE Scalar(value)

StoredAfter_keep_history(ek, mult, key, value, overwrite) ==
    IF key \in DOMAIN ek
    THEN IF mult[key] THEN List(Append(ek[key].items, value))
         ELSE IF overwrite THEN Scalar(value)
              ELSE List(<< ek[key].val, value >>)
    ELSE Scalar(value)

\* the value add_extra_key leaves in extra_keys[key]
StoredAfter(ek, mult, key, value, overwrite) ==
    IF key \in DOMAIN ek
    THEN IF overwrite THEN Scalar(value)
         ELSE IF mult[key] THEN List(Append(ek[key].items, value))
              ELSE List(<< ek[key].val, value >>)
    ELSE Scalar(value)

\* the flag add_extra_key leaves in multiple[key]
\* the flag set when the key is created
MultipleAfter_on_create(ek, mult, key, overwrite) ==
    IF key \in DOMAIN ek
    THEN IF overwrite THEN FALSE ELSE TRUE
    ELSE TRUE

MultipleAfter_sticky(ek, mult, key, overwrite) ==
    IF key \in DOMAIN ek
    THEN IF overwrite THEN mult[key] ELSE TRUE
    ELSE FALSE

MultipleAfter(ek, mult, key, overwrite) ==
    IF key \in DOMAIN ek
    THEN IF overwrite THEN FALSE ELSE TRUE
    ELSE FALSE

\* whether add_extra_key calls warnings.warn
Warns(ek, key, overwrite) == key \in DOMAIN ek /\ overwrite

OverwriteWarning(key) == [kind |-> "overwrite", what |-> key]

add_extra_key(key, value, overwrite) ==
    /\ pc = "main"
    /\ has_content' = TRUE
    /\ extra_keys' = (key :> StoredAfter(extra_keys, multiple, key, value, overwrite))
                        @@ extra_keys
    /\ multiple' = (key :> MultipleAfter(extra_keys, multiple, key, overwrite))
                        @@ multiple
    /\ warnings' = IF Warns(extra_keys, key, overwrite)
                   THEN Append(warnings, OverwriteWarning(key))
                   ELSE warnings
    /\ hist' = (key :> IF key \in DOMAIN extra_keys /\ ~overwrite
                       THEN Append(hist[key], value)
                       ELSE << value >>) @@ hist
    /\ calls' = calls + 1
    /\ UNCHANGED << pc, control_vars, root_set, userfs, output_files,
                    input_files, capfile, stream_vars, root_vars,
                    content >>

\* os.path.abspath, the working directory being the file-system root
AbsPath(path) == IF path[1] = "/" THEN path ELSE << "/" >> \o path

\* the arguments outpath is called with: relative and absolute spellings
OutpathArgs == Paths \cup { Tail(p) : p \in Paths }

\* internals.py lines 50-60, ensure_dir_exists: what is at each user path
\* after the call
EnsureDirExists(fs, path) ==
    IF fs[path] = "absent" THEN [fs EXCEPT ![path] = "dir"] ELSE fs

\* utils/general.py lines 69-85
outpath(p, ensure_dir_exists) ==
    LET path == AbsPath(p)
    IN  /\ pc = "main"
        /\ userfs' = IF ensure_dir_exists THEN EnsureDirExists(userfs, path)
                                          ELSE userfs
        /\ has_content' = TRUE
        /\ output_files' = Append(output_files, path)
        /\ calls' = calls + 1
        /\ UNCHANGED << pc, control_vars, root_set, input_files, extra_keys,
                        multiple, hist, capfile, stream_vars, root_vars,
                        warnings, content >>

\* an argument as Python passes it: an object of some type
Arg(type, val) == [type |-> type, val |-> val]
ArgTypes == { "str", "Path", "int" }
PathArgs == { Arg(t, p) : t \in ArgTypes, p \in OutpathArgs }
\* those spelled as absolute paths
AbsPathArgs == { Arg(t, p) : t \in ArgTypes, p \in Paths }
KeyArgs == { Arg(t, k) : t \in ArgTypes, k \in Keys }

\* the type test left out
IsPathLike_unchecked(arg) == TRUE

\* isinstance(path, (str, Path))
IsPathLike(arg) == arg.type \in { "str", "Path" }

\* isinstance(key, str)
IsStr(arg) == arg.type = "str"

\* raise TypeError(...): the caller gets the exception, nothing else happens
raise_TypeError ==
    /\ pc = "main"
    /\ exc' = "TypeError"
    /\ UNCHANGED << pc, exiting, idx, started, completed, root_set, userfs,
                    experiment_vars, capfile, stream_vars, root_vars,
                    warnings, calls, content >>

\* utils/general.py lines 21-29
log_input_file(arg) ==
    IF IsPathLike(arg) THEN add_input_file(arg.val) ELSE raise_TypeError

\* utils/general.py lines 32-40
log_output_file(arg) ==
    IF IsPathLike(arg) THEN add_output_file(arg.val) ELSE raise_TypeError

\* utils/general.py lines 43-51
log_extra(value, key) ==
    IF IsStr(key) THEN add_extra_key(key.val, value, TRUE) ELSE raise_TypeError

\* utils/general.py lines 54-66
inpath(arg) ==
    IF IsPathLike(arg) THEN add_input_file(AbsPath(arg.val)) ELSE raise_TypeError

\* utils/general.py lines 69-85, the type test included
outpath_checked(arg, ensure_dir_exists) ==
    IF IsPathLike(arg) THEN outpath(arg.val, ensure_dir_exists)
                       ELSE raise_TypeError

\* 'metric:' + metric_name
MetricKey(name) == << "metric:" >> \o name

\* utils/ml.py lines 57-67
log_metric(value, metric_name) ==
    IF IsStr(metric_name)
    THEN add_extra_key(MetricKey(metric_name.val), value, FALSE)
    ELSE raise_TypeError

\* utils/data.py lines 64-75
log_ndarray(key, overwrite) ==
    IF IsStr(key) THEN add_extra_key(key.val, ArtifactValue, overwrite)
                  ELSE raise_TypeError

Utilities ==
    \/ \E arg \in AbsPathArgs : log_input_file(arg)
    \/ \E arg \in AbsPathArgs : log_output_file(arg)
    \/ \E arg \in PathArgs : inpath(arg)
    \/ \E arg \in PathArgs, e \in BOOLEAN : outpath_checked(arg, e)
    \/ \E value \in Values, key \in KeyArgs : log_extra(value, key)
    \/ \E value \in Values, key \in KeyArgs : log_metric(value, key)
    \/ \E key \in KeyArgs, overwrite \in BOOLEAN : log_ndarray(key, overwrite)

\* the program, or anything else, rewrites a file while the program runs
user_write(path, data) ==
    /\ pc = "main"
    /\ userfs[path] # "dir"
    /\ data # content[path] \/ userfs[path] = "absent"
    /\ userfs' = [userfs EXCEPT ![path] = "file"]
    /\ content' = [content EXCEPT ![path] = data]
    /\ UNCHANGED << pc, control_vars, root_set, experiment_vars, capfile,
                    stream_vars, root_vars, warnings, calls >>

Register ==
    \/ \E path \in Paths : add_output_file(path)
    \/ \E path \in Paths : add_input_file(path)
    \/ \E key \in Keys, value \in Values, overwrite \in BOOLEAN :
            add_extra_key(key, value, overwrite)


(***************************************************************************)
(* Stream capture.  The program writes to fd 1 / fd 2, which after the     *)
(* dup2 calls are the stdin pipes of the two tee processes.  Each tee      *)
(* loops: read a block from its stdin, write it to its own stdout, write   *)
(* it to its capture file.  tee_stdout was spawned before the redirection  *)
(* and writes to the original stdout; tee_stderr was spawned after fd 1    *)
(* was redirected and inherits it, so its stdout is the pipe of tee_stdout.*)
(***************************************************************************)
write(s, b) ==
    /\ pc = "main"
    /\ pipe' = [pipe EXCEPT ![s] = Append(@, b)]
    /\ written' = [written EXCEPT ![s] = Append(@, b)]
    /\ UNCHANGED << pc, control_vars, root_set, userfs, experiment_vars,
                    capfile, tpc, tbuf, console, root_vars, warnings, calls,
                    content >>

tee_read(s) ==
    /\ tpc[s] = "read"
    /\ pipe[s] # << >>
    /\ tbuf' = [tbuf EXCEPT ![s] = pipe[s]]
    /\ pipe' = [pipe EXCEPT ![s] = << >>]
    /\ tpc' = [tpc EXCEPT ![s] = "out"]
    /\ UNCHANGED << pc, control_vars, root_set, userfs, experiment_vars,
                    capfile, console, written, root_vars, warnings, calls,
                    content >>

tee_out(s) ==
    /\ tpc[s] = "out"
    /\ IF s = "stdout"
       THEN /\ console' = [console EXCEPT !["stdout"] = @ \o tbuf[s]]
            /\ pipe' = pipe
       ELSE /\ pipe' = [pipe EXCEPT !["stdout"] = @ \o tbuf[s]]
            /\ console' = console
    /\ tpc' = [tpc EXCEPT ![s] = "file"]
    /\ UNCHANGED << pc, control_vars, root_set, userfs, experiment_vars,
                    capfile, tbuf, written, root_vars, warnings, calls,
                    content >>

\* tee keeps the file open: after the file is unlinked the write still
\* succeeds but reaches nothing that has a name
tee_file(s) ==
    /\ tpc[s] = "file"
    /\ capfile' = IF capfile[s].exists
                  THEN [capfile EXCEPT ![s].data = @ \o tbuf[s]]
                  ELSE capfile
    /\ tbuf' = [tbuf EXCEPT ![s] = << >>]
    /\ tpc' = [tpc EXCEPT ![s] = "read"]
    /\ UNCHANGED << pc, control_vars, root_set, userfs, experiment_vars,
                    pipe, console, written, root_vars, warnings, calls,
                    content >>

Tee == \E s \in Streams : tee_read(s) \/ tee_out(s) \/ tee_file(s)

(***************************************************************************)
(* Pure helpers of save_experiment.                                        *)
(***************************************************************************)
DigitChar(d) == << "0", "1", "2", "3", "4", "5", "6", "7", "8", "9" >>[d + 1]

\* str(n) for n >= 0
RECURSIVE Str(_)
Str(n) == IF n < 10 THEN << DigitChar(n) >>
          ELSE Str(n \div 10) \o << DigitChar(n % 10) >>

\* the index printed without padding
ZeroPad_unpadded(k, w) == Str(k)

\* '%0<w>d' % k
ZeroPad(k, w) ==
    LET s == Str(k)
    IN  IF Len(s) >= w THEN s ELSE [i \in 1..(w - Len(s)) |-> "0"] \o s

\* the file names one extra key is written under
\* base_key + '.%0<len(str(n))>d' % k
EntryName(base_key, n, k) == base_key \o << "." >> \o ZeroPad(k, Len(Str(n)))

EntryNames(base_key, base_value, mult) ==
    IF mult
    THEN { EntryName(base_key, Len(base_value.items), k) :
              k \in 0..(Len(base_value.items) - 1) }
    ELSE { base_key }

\* what is at a user path when the process starts
NodeAt_initial(path) ==
    IF userfs[path] = "file" THEN FileNode(InitialContent)
    ELSE IF userfs[path] = "dir" THEN DirNode({})
    ELSE OtherNode

\* what is at a user path now (no entry is modelled below a user path)
NodeAt(path) ==
    IF userfs[path] = "file" THEN FileNode(content[path])
    ELSE IF userfs[path] = "dir" THEN DirNode({})
    ELSE OtherNode

\* lines 63-93 on a node without entries: the digest of the file's bytes, or
\* of nothing
EvalChecksum(node) ==
    XXH(IF node.kind = "file" THEN node.data ELSE << >>)

\* lines 303-311: the files one (name, value) pair is written to
FilesOf(name, value) ==
    IF value = ArtifactValue
    THEN { name, name \o << ".", "r", "e", "a", "d" >> }
    ELSE { name }

\* lines 297-311: the files one extra key is written to
EntryFiles(base_key, base_value, mult) ==
    IF mult
    THEN UNION { FilesOf(EntryName(base_key, Len(base_value.items), k),
                         base_value.items[k + 1]) :
                    k \in 0..(Len(base_value.items) - 1) }
    ELSE FilesOf(base_key, base_value.val)

MissingOutputWarning(path) == [kind |-> "missing_output", what |-> path]

WorkDirs == { "all_experiments/id", "source", "output_files", "extra_keys" }

\* where control goes when save_experiment returns or raises
AfterSave == IF exiting THEN "terminated" ELSE "main"

Raise(e) ==
    /\ exc' = e
    /\ pc' = AfterSave
    /\ UNCHANGED << exiting, started, completed >>


(***************************************************************************)
(* save_experiment, step by step.  It is entered by an explicit call of    *)
(* the program or by the atexit hook when the program ends.                *)
(***************************************************************************)
call_save_experiment ==
    /\ pc = "main"
    /\ pc' = "save_check"
    /\ exc' = "none"
    /\ started' = started + 1
    /\ UNCHANGED << exiting, idx, completed, root_set, userfs,
                    experiment_vars, capfile, stream_vars, root_vars,
                    warnings, calls,
                    content >>

\* the program ends: the interpreter runs the registered atexit hook
atexit_hook ==
    /\ pc = "main"
    /\ exiting' = TRUE
    /\ pc' = "save_check"
    /\ exc' = "none"
    /\ started' = started + 1
    /\ UNCHANGED << idx, completed, root_set, userfs, experiment_vars,
                    capfile, stream_vars, root_vars, warnings, calls,
                    content >>

\* lines 210-218: the has_content test, the LOGRUN_ROOT test, the banner
save_check_no_content_test ==
    /\ pc = "save_check"
    /\ IF ~root_set
       THEN /\ Raise("OSError")
            /\ pipe' = pipe
       ELSE /\ pc' = "save_dirs"
            /\ pipe' = [pipe EXCEPT !["stdout"] = Append(@, Banner)]
            /\ UNCHANGED << exiting, exc, started, completed >>
    /\ UNCHANGED << idx, root_set, userfs, experiment_vars, capfile, tpc,
                    tbuf, console, written, root_vars, warnings, calls,
                    content >>

save_check ==
    /\ pc = "save_check"
    /\ IF ~has_content
       THEN /\ pc' = "cleanup"
            /\ pipe' = pipe
            /\ UNCHANGED << exiting, exc, started, completed >>
       ELSE IF ~root_set
            THEN /\ Raise("OSError")
                 /\ pipe' = pipe
            ELSE /\ pc' = "save_dirs"
                 /\ pipe' = [pipe EXCEPT !["stdout"] = Append(@, Banner)]
                 /\ UNCHANGED << exiting, exc, started, completed >>
    /\ UNCHANGED << idx, root_set, userfs, experiment_vars, capfile, tpc,
                    tbuf, console, written, root_vars, warnings, calls,
                    content >>

\* lines 220-227: the working directory, the two index roots, source/
save_dirs ==
    /\ pc = "save_dirs"
    /\ dirs' = dirs \cup { "all_experiments/id", "experiments_by_output_file",
                           "experiments_by_input_file", "source" }
    /\ pc' = "save_source"
    /\ UNCHANGED << control_vars, root_set, userfs, experiment_vars, capfile,
                    stream_vars, workfiles, stream_copies, out_copies,
                    extra_files, symlinks, archive, warnings, calls,
                    content, input_pickle >>

\* lines 229-248: the source snapshot
save_source ==
    /\ pc = "save_source"
    /\ workfiles' = workfiles \cup { "source/script" }
    /\ pc' = "save_meta"
    /\ UNCHANGED << control_vars, root_set, userfs, experiment_vars, capfile,
                    stream_vars, dirs, stream_copies, out_copies,
                    extra_files, symlinks, archive, warnings, calls,
                    content, input_pickle >>

\* lines 250-266: meta.pickle
save_meta ==
    /\ pc = "save_meta"
    /\ workfiles' = workfiles \cup { "meta.pickle" }
    /\ pc' = "save_stdout"
    /\ UNCHANGED << control_vars, root_set, userfs, experiment_vars, capfile,
                    stream_vars, dirs, stream_copies, out_copies,
                    extra_files, symlinks, archive, warnings, calls,
                    content, input_pickle >>

\* lines 268-269: shutil.copyfile of one capture file into the working
\* directory; a missing source raises FileNotFoundError
save_stream(s, here, next) ==
    /\ pc = here
    /\ IF capfile[s].exists
       THEN /\ stream_copies' = [stream_copies EXCEPT ![s] = capfile[s]]
            /\ pc' = next
            /\ UNCHANGED << exiting, exc, started, completed >>
       ELSE /\ Raise("FileNotFoundError")
            /\ stream_copies' = stream_copies
    /\ UNCHANGED << idx, root_set, userfs, experiment_vars, capfile,
                    stream_vars, dirs, workfiles, out_copies, extra_files,
                    symlinks, archive, warnings, calls,
                    content, input_pickle >>

save_stdout == save_stream("stdout", "save_stdout", "save_stderr")

save_stderr == save_stream("stderr", "save_stderr", "save_outdir")

\* line 271: output_files/
save_outdir ==
    /\ pc = "save_outdir"
    /\ dirs' = dirs \cup { "output_files" }
    /\ idx' = 1
    /\ pc' = "save_output"
    /\ UNCHANGED << exiting, exc, started, completed, root_set, userfs,
                    experiment_vars, capfile, stream_vars, workfiles,
                    stream_copies, out_copies, extra_files, symlinks,
                    archive, warnings, calls,
                    content, input_pickle >>


\* lines 272-283: one iteration of the loop over the declared outputs
\* (copyfile, then the index symlink), or the end of the loop
save_output_no_exists_test ==
    /\ pc = "save_output"
    /\ IF idx > Len(output_files)
       THEN /\ pc' = "save_inputs_pickle"
            /\ UNCHANGED << exiting, exc, started, completed, idx, pipe,
                            out_copies, symlinks, warnings >>
       ELSE LET output_file == output_files[idx]
                output_file_repr == Escape(output_file)
            IN  IF userfs[output_file] = "absent"
                THEN /\ Raise("FileNotFoundError")
                     /\ UNCHANGED << idx, pipe, out_copies, symlinks,
                                     warnings >>
                ELSE IF userfs[output_file] = "dir"
                THEN /\ Raise("IsADirectoryError")
                     /\ UNCHANGED << idx, pipe, out_copies, symlinks,
                                     warnings >>
                ELSE /\ out_copies' = out_copies \cup { output_file_repr }
                     /\ IF << "out", output_file_repr >> \in symlinks
                        THEN /\ Raise("FileExistsError")
                             /\ UNCHANGED << idx, symlinks >>
                        ELSE /\ symlinks' = symlinks \cup
                                    { << "out", output_file_repr >> }
                             /\ idx' = idx + 1
                             /\ UNCHANGED << pc, exiting, exc, started,
                                             completed >>
                     /\ UNCHANGED << pipe, warnings >>
    /\ UNCHANGED << root_set, userfs, experiment_vars, capfile, tpc, tbuf,
                    console, written, dirs, workfiles, stream_copies,
                    extra_files, archive, calls,
                    content, input_pickle >>

save_output ==
    /\ pc = "save_output"
    /\ IF idx > Len(output_files)
       THEN /\ pc' = "save_inputs_pickle"
            /\ UNCHANGED << exiting, exc, started, completed, idx, pipe,
                            out_copies, symlinks, warnings >>
       ELSE LET output_file == output_files[idx]
                output_file_repr == Escape(output_file)
            IN  IF userfs[output_file] = "absent"
                THEN /\ warnings' = Append(warnings,
                                           MissingOutputWarning(output_file))
                     /\ pipe' = [pipe EXCEPT !["stdout"] =
                                    Append(@, WarningLine)]
                     /\ idx' = idx + 1
                     /\ UNCHANGED << pc, exiting, exc, started, completed,
                                     out_copies, symlinks >>
                ELSE IF userfs[output_file] = "dir"
                THEN /\ Raise("IsADirectoryError")
                     /\ UNCHANGED << idx, pipe, out_copies, symlinks,
                                     warnings >>
                ELSE /\ out_copies' = out_copies \cup { output_file_repr }
                     /\ IF << "out", output_file_repr >> \in symlinks
                        THEN /\ Raise("FileExistsError")
                             /\ UNCHANGED << idx, symlinks >>
                        ELSE /\ symlinks' = symlinks \cup
                                    { << "out", output_file_repr >> }
                             /\ idx' = idx + 1
                             /\ UNCHANGED << pc, exiting, exc, started,
                                             completed >>
                     /\ UNCHANGED << pipe, warnings >>
    /\ UNCHANGED << root_set, userfs, experiment_vars, capfile, tpc, tbuf,
                    console, written, dirs, workfiles, stream_copies,
                    extra_files, archive, calls,
                    content, input_pickle >>

\* lines 284-287: input_files.pickle, the path -> checksum dictionary
save_inputs_pickle ==
    /\ pc = "save_inputs_pickle"
    /\ workfiles' = workfiles \cup { "input_files.pickle" }
    /\ input_pickle' =
            Pickle({ << input_files[i], EvalChecksum(NodeAt(input_files[i])) >> :
                        i \in 1..Len(input_files) })
    /\ idx' = 1
    /\ pc' = "save_input"
    /\ UNCHANGED << exiting, exc, started, completed, root_set, userfs,
                    experiment_vars, capfile, stream_vars, dirs,
                    stream_copies, out_copies, extra_files, symlinks,
                    archive, warnings, calls,
                    content >>

\* lines 288-293: one iteration of the loop over the declared inputs (the
\* index symlink; no existence test), or the end of the loop
save_input ==
    /\ pc = "save_input"
    /\ IF idx > Len(input_files)
       THEN /\ pc' = "save_extras"
            /\ UNCHANGED << exiting, exc, started, completed, idx, symlinks >>
       ELSE LET input_file_repr == Escape(input_files[idx])
            IN  IF << "in", input_file_repr >> \in symlinks
                THEN /\ Raise("FileExistsError")
                     /\ UNCHANGED << idx, symlinks >>
                ELSE /\ symlinks' = symlinks \cup
                            { << "in", input_file_repr >> }
                     /\ idx' = idx + 1
                     /\ UNCHANGED << pc, exiting, exc, started, completed >>
    /\ UNCHANGED << root_set, userfs, experiment_vars, capfile, stream_vars,
                    dirs, workfiles, stream_copies, out_copies, extra_files,
                    archive, warnings, calls,
                    content, input_pickle >>

\* lines 295-311: extra_keys/ and one file per (expanded) extra key
save_extras ==
    /\ pc = "save_extras"
    /\ dirs' = dirs \cup { "extra_keys" }
    /\ extra_files' = extra_files \cup
            UNION { EntryFiles(base_key, extra_keys[base_key],
                               multiple[base_key]) :
                        base_key \in DOMAIN extra_keys }
    /\ pc' = "save_tar"
    /\ UNCHANGED << control_vars, root_set, userfs, experiment_vars, capfile,
                    stream_vars, workfiles, stream_copies, out_copies,
                    symlinks, archive, warnings, calls,
                    content, input_pickle >>

\* the archive written before the extra keys were: extra_keys/ left out
save_tar_without_extras ==
    /\ pc = "save_tar"
    /\ archive' = [exists |-> TRUE, workfiles |-> workfiles,
                   streams |-> stream_copies, outs |-> out_copies,
                   extras |-> {}, inputs |-> input_pickle]
    /\ pc' = "save_rmtree"
    /\ UNCHANGED << control_vars, root_set, userfs, experiment_vars, capfile,
                    stream_vars, dirs, workfiles, stream_copies, out_copies,
                    extra_files, symlinks, warnings, calls,
                    content, input_pickle >>

\* lines 313-316: the archive of every file of the working directory
save_tar ==
    /\ pc = "save_tar"
    /\ archive' = [exists |-> TRUE, workfiles |-> workfiles,
                   streams |-> stream_copies, outs |-> out_copies,
                   extras |-> extra_files, inputs |-> input_pickle]
    /\ pc' = "save_rmtree"
    /\ UNCHANGED << control_vars, root_set, userfs, experiment_vars, capfile,
                    stream_vars, dirs, workfiles, stream_copies, out_copies,
                    extra_files, symlinks, warnings, calls,
                    content, input_pickle >>

\* line 317 left out: the working directory stays
save_rmtree_skipped ==
    /\ pc = "save_rmtree"
    /\ pc' = "cleanup"
    /\ UNCHANGED << control_vars, root_set, userfs, experiment_vars, capfile,
                    stream_vars, root_vars, warnings, calls,
                    content >>

\* line 317: shutil.rmtree of the working directory
save_rmtree ==
    /\ pc = "save_rmtree"
    /\ dirs' = dirs \ WorkDirs
    /\ workfiles' = {}
    /\ input_pickle' = NoPickle
    /\ stream_copies' = [s \in Streams |-> NoFile]
    /\ out_copies' = {}
    /\ extra_files' = {}
    /\ pc' = "cleanup"
    /\ UNCHANGED << control_vars, root_set, userfs, experiment_vars, capfile,
                    stream_vars, symlinks, archive, warnings, calls,
                    content >>

\* lines 199-201 (called at 211 and 319), then save_experiment returns
cleanup ==
    /\ pc = "cleanup"
    /\ capfile' = [s \in Streams |-> NoFile]
    /\ completed' = completed + 1
    /\ pc' = AfterSave
    /\ UNCHANGED << exiting, exc, idx, started, root_set, userfs,
                    experiment_vars, stream_vars, root_vars, warnings, calls,
                    content >>

Save ==
    \/ save_check
    \/ save_dirs
    \/ save_source
    \/ save_meta
    \/ save_stdout
    \/ save_stderr
    \/ save_outdir
    \/ save_output
    \/ save_inputs_pickle
    \/ save_input
    \/ save_extras
    \/ save_tar
    \/ save_rmtree
    \/ cleanup

(***************************************************************************)
(* Specifications.                                                         *)
(*   Spec        the Experiment, its registrations and the finalizer; the  *)
(*               program writes nothing to stdout / stderr.                *)
(*   SpecStore   the registration operations taken alone, to a greater     *)
(*               depth.                                                    *)
(*   SpecCapture the program's writes, the two tee processes and the       *)
(*               finalizer, interleaved.                                   *)
(***************************************************************************)
(***************************************************************************)
(* eval_checksum (lines 63-93), one step per file read or directory        *)
(* listing.  The recursion over a directory is the stack of what is still  *)
(* to be visited; every call shares the one hash state.                    *)
(***************************************************************************)
Min(a, b) == IF a <= b THEN a ELSE b
Max(a, b) == IF a >= b THEN a ELSE b

\* every order os.listdir may return the entries in
Orders(S) ==
    { s \in [1..Cardinality(S) -> S] : \A i, j \in 1..Cardinality(S) :
                                            i # j => s[i] # s[j] }

\* line 78: whether the whole file is read at once
SingleRead(filesize, available_memory) == 10 * filesize <= available_memory

\* the chunk size without the floor
ChunkSize_unclamped(available_memory) == available_memory \div 10

\* line 81
ChunkSize(available_memory) == Max(available_memory \div 10, BlockSize)

\* file.read(chunksize) with the file offset not advancing
ReadChunk_from_start(data, offset, size) ==
    SubSeq(data, 1, Min(size, Len(data) - offset))

\* file.read(chunksize) at the file offset
ReadChunk(data, offset, size) ==
    SubSeq(data, offset + 1, Min(offset + size, Len(data)))

\* lines 71-72: the top-level call makes the hash state
checksum_call ==
    /\ cpc = "call"
    /\ state' = << >>
    /\ stack' = << target >>
    /\ cpc' = "visit"
    /\ UNCHANGED << program_vars, target, pos, chunksize, nchunks, strategy,
                    digest >>

\* lines 74-80: a regular file small enough for the memory available
checksum_file_read ==
    /\ cpc = "visit"
    /\ stack # << >>
    /\ Head(stack).kind = "file"
    /\ \E available_memory \in 0..MaxMem :
          SingleRead(Len(Head(stack).data), available_memory)
    /\ state' = state \o Head(stack).data
    /\ strategy' = "single"
    /\ stack' = Tail(stack)
    /\ UNCHANGED << program_vars, cpc, target, pos, chunksize, nchunks, digest >>

\* lines 81-83: a regular file too large for it is opened to be read in chunks
checksum_file_open ==
    /\ cpc = "visit"
    /\ stack # << >>
    /\ Head(stack).kind = "file"
    /\ \E available_memory \in 0..MaxMem :
          /\ ~SingleRead(Len(Head(stack).data), available_memory)
          /\ chunksize' = ChunkSize(available_memory)
    /\ pos' = 0
    /\ nchunks' = 0
    /\ strategy' = "chunked"
    /\ cpc' = "chunks"
    /\ UNCHANGED << program_vars, target, stack, state, digest >>

\* lines 83-87: one turn of the chunk loop
checksum_chunk ==
    /\ cpc = "chunks"
    /\ LET chunk == ReadChunk(Head(stack).data, pos, chunksize)
       IN  IF chunk = << >>
           THEN /\ stack' = Tail(stack)
                /\ cpc' = "visit"
                /\ UNCHANGED << state, pos, nchunks >>
           ELSE /\ state' = state \o chunk
                /\ pos' = pos + Len(chunk)
                /\ nchunks' = nchunks + 1
                /\ UNCHANGED << stack, cpc >>
    /\ UNCHANGED << program_vars, target, chunksize, strategy, digest >>

\* a directory whose visit feeds a byte of its own to the hash state
checksum_dir_fed ==
    /\ cpc = "visit"
    /\ stack # << >>
    /\ Head(stack).kind = "dir"
    /\ \E listing \in Orders(Head(stack).children) :
          stack' = [i \in 1..Len(listing) |-> listing[i].node] \o Tail(stack)
    /\ state' = Append(state, 0)
    /\ UNCHANGED << program_vars, cpc, target, pos, chunksize, nchunks,
                    strategy, digest >>

\* lines 88-90: a directory; its entries are visited in the order the listing
\* returns them, each before what follows the directory
checksum_dir ==
    /\ cpc = "visit"
    /\ stack # << >>
    /\ Head(stack).kind = "dir"
    /\ \E listing \in Orders(Head(stack).children) :
          stack' = [i \in 1..Len(listing) |-> listing[i].node] \o Tail(stack)
    /\ UNCHANGED << program_vars, cpc, target, state, pos, chunksize, nchunks,
                    strategy, digest >>

\* neither a file nor a directory: nothing is fed
checksum_other ==
    /\ cpc = "visit"
    /\ stack # << >>
    /\ Head(stack).kind = "other"
    /\ stack' = Tail(stack)
    /\ UNCHANGED << program_vars, cpc, target, state, pos, chunksize, nchunks,
                    strategy, digest >>

\* lines 92-93: the top-level call returns the digest
checksum_digest ==
    /\ cpc = "visit"
    /\ stack = << >>
    /\ digest' = XXH(state)
    /\ cpc' = "done"
    /\ UNCHANGED << program_vars, target, stack, state, pos, chunksize,
                    nchunks, strategy >>

eval_checksum ==
    \/ checksum_call
    \/ checksum_file_read
    \/ checksum_file_open
    \/ checksum_chunk
    \/ checksum_dir
    \/ checksum_other
    \/ checksum_digest

(***************************************************************************)
(* Two processes, each with its own Experiment, running save_experiment    *)
(* under one root: the steps of each that touch what the two share.        *)
(***************************************************************************)
\* what a process does once the directory it was ensuring exists
AfterEnsure(q) ==
    IF pstep[q] < Len(EnsuredDirs(q))
    THEN /\ pstep' = [pstep EXCEPT ![q] = @ + 1]
         /\ ppc' = [ppc EXCEPT ![q] = "exists"]
    ELSE /\ ppc' = [ppc EXCEPT ![q] = "symlink"]
         /\ UNCHANGED pstep

\* line 57: os.path.exists(path) in ensure_dir_exists
ensure_dir_exists_test(q) ==
    /\ ppc[q] = "exists"
    /\ IF EnsuredDirs(q)[pstep[q]] \in rdirs
       THEN AfterEnsure(q)
       ELSE /\ ppc' = [ppc EXCEPT ![q] = "makedirs"]
            /\ UNCHANGED pstep
    /\ UNCHANGED << single_vars, checksum_vars, pexc, rdirs, rsymlinks,
                    rarchives >>

\* line 58: os.makedirs(path), which raises when the directory exists
ensure_dir_exists_makedirs(q) ==
    /\ ppc[q] = "makedirs"
    /\ IF EnsuredDirs(q)[pstep[q]] \in rdirs
       THEN /\ pexc' = [pexc EXCEPT ![q] = "FileExistsError"]
            /\ ppc' = [ppc EXCEPT ![q] = "raised"]
            /\ UNCHANGED << pstep, rdirs >>
       ELSE /\ rdirs' = rdirs \cup { EnsuredDirs(q)[pstep[q]] }
            /\ AfterEnsure(q)
            /\ UNCHANGED pexc
    /\ UNCHANGED << single_vars, checksum_vars, rsymlinks, rarchives >>

\* lines 280-283: the index symlink, named after the process's own id
race_symlink(q) ==
    /\ ppc[q] = "symlink"
    /\ rsymlinks' = rsymlinks \cup { q }
    /\ ppc' = [ppc EXCEPT ![q] = "tar"]
    /\ UNCHANGED << single_vars, checksum_vars, pstep, pexc, rdirs, rarchives >>

\* lines 313-317: the process's archive, then its working directory removed
race_tar(q) ==
    /\ ppc[q] = "tar"
    /\ rarchives' = rarchives \cup { q }
    /\ rdirs' = rdirs \ { OwnDir(q) }
    /\ ppc' = [ppc EXCEPT ![q] = "returned"]
    /\ UNCHANGED << single_vars, checksum_vars, pstep, pexc, rsymlinks >>

\* SpecRace: both processes finalize, under a root that may have been used
InitRace ==
    /\ root_set = TRUE
    /\ userfs = [p \in Paths |-> "file"]
    /\ InitProcess
    /\ NoChecksum
    /\ ppc = [q \in Procs |-> "exists"]
    /\ pstep = [q \in Procs |-> 1]
    /\ pexc = [q \in Procs |-> "none"]
    /\ rdirs \in SUBSET SharedDirs
    /\ rsymlinks = {}
    /\ rarchives = {}

NextRace ==
    \E q \in Procs :
        \/ ensure_dir_exists_test(q)
        \/ ensure_dir_exists_makedirs(q)
        \/ race_symlink(q)
        \/ race_tar(q)

SpecRace == InitRace /\ [][NextRace]_vars

Next ==
    /\ \/ Experiment_init
       \/ (calls < MaxCalls /\ Register)
       \/ (started < MaxManualSaves /\ call_save_experiment)
       \/ atexit_hook
       \/ Save
    /\ UNCHANGED << checksum_vars, race_vars >>

Spec == Init /\ [][Next]_vars

NextStore ==
    /\ \/ Experiment_init
       \/ (calls < MaxStoreCalls /\ Register)
    /\ UNCHANGED << checksum_vars, race_vars >>

InitStore == Init /\ root_set /\ \A p \in Paths : userfs[p] = "file"

SpecStore == InitStore /\ [][NextStore]_vars

Written == Len(written["stdout"]) + Len(written["stderr"])

NextCapture ==
    /\ \/ Experiment_init
       \/ (calls < 1 /\ \E path \in Paths : add_output_file(path))
       \/ (Written < MaxWrites /\ \E s \in Streams, b \in Data : write(s, b))
       \/ Tee
       \/ atexit_hook
       \/ Save
    /\ UNCHANGED << checksum_vars, race_vars >>

InitCapture == Init /\ root_set /\ \A p \in Paths : userfs[p] = "file"

SpecCapture == InitCapture /\ [][NextCapture]_vars

\* SpecNames: two registrations of any kind, then values accumulated under
\* one key, then the finalizer
NextNames ==
    /\ \/ Experiment_init
       \/ (calls < 2 /\ Register)
       \/ (calls < MaxElems /\ add_extra_key(<< "k" >>, "v1", FALSE))
       \/ atexit_hook
       \/ Save
    /\ UNCHANGED << checksum_vars, race_vars >>

InitNames == Init /\ root_set /\ \A p \in Paths : userfs[p] = "file"

SpecNames == InitNames /\ [][NextNames]_vars

\* SpecOutpath: output paths declared through outpath, then the finalizer
NextOutpath ==
    /\ \/ Experiment_init
       \/ (calls < 2 /\ \E p \in OutpathArgs, e \in BOOLEAN : outpath(p, e))
       \/ atexit_hook
       \/ Save
    /\ UNCHANGED << checksum_vars, race_vars >>

InitOutpath == Init /\ root_set

SpecOutpath == InitOutpath /\ [][NextOutpath]_vars

\* SpecInputs: input paths declared, files rewritten meanwhile, then the
\* finalizer
NextInputs ==
    /\ \/ Experiment_init
       \/ (calls < 2 /\ \E path \in Paths : add_input_file(path))
       \/ \E path \in Paths, data \in FileData : user_write(path, data)
       \/ atexit_hook
       \/ Save
    /\ UNCHANGED << checksum_vars, race_vars >>

InitInputs == Init /\ root_set

SpecInputs == InitInputs /\ [][NextInputs]_vars

\* SpecKeys: values, Artifacts among them, registered under keys spelled like
\* derived file names, then the finalizer
NextKeys ==
    /\ \/ Experiment_init
       \/ (calls < 3 /\ \E key \in DerivedKeys,
                            value \in Values \cup { ArtifactValue },
                            overwrite \in BOOLEAN :
                                add_extra_key(key, value, overwrite))
       \/ atexit_hook
       \/ Save
    /\ UNCHANGED << checksum_vars, race_vars >>

InitKeys == Init /\ root_set

SpecKeys == InitKeys /\ [][NextKeys]_vars

\* SpecUtils: the utility functions called with arguments of any type, then
\* the finalizer
NextUtils ==
    /\ \/ Experiment_init
       \/ (calls < 2 /\ Utilities)
       \/ atexit_hook
       \/ Save
    /\ UNCHANGED << checksum_vars, race_vars >>

InitUtils == Init /\ root_set

SpecUtils == InitUtils /\ [][NextUtils]_vars

\* SpecEscape: declared paths drawn from every short string, all of them
\* regular files, then the finalizer
NextEscape ==
    /\ \/ Experiment_init
       \/ (calls < 2 /\ \E path \in PathStrings : add_output_file(path))
       \/ atexit_hook
       \/ Save
    /\ UNCHANGED << checksum_vars, race_vars >>

InitEscape ==
    /\ root_set = TRUE
    /\ userfs = [p \in PathStrings |-> "file"]
    /\ InitProcess
    /\ NoChecksum
    /\ NoRace

SpecEscape == InitEscape /\ [][NextEscape]_vars


(***************************************************************************)
(* Properties of the extra-key store (checked under SpecStore).            *)
(***************************************************************************)
Range(seq) == { seq[i] : i \in 1..Len(seq) }

\* C1: a key registered n >= 2 times without an overwriting registration
\* since it was created holds the sequence of the n values in registration
\* order, and is in multiple mode.
C1_Accumulate ==
    \A k \in DOMAIN extra_keys :
        Len(hist[k]) >= 2 =>
            /\ extra_keys[k] = List(hist[k])
            /\ multiple[k] = TRUE

\* three non-overwriting registrations of one key, no overwrite ever made
C1_Witness ==
    \E k \in DOMAIN extra_keys :
        /\ warnings = << >>
        /\ hist[k] = << "v1", "v2", "v1" >>
        /\ extra_keys[k] = List(<< "v1", "v2", "v1" >>)
        /\ multiple[k]

\* C2: add_extra_key(k, v, overwrite=True) on an existing key warns and
\* leaves exactly the scalar v with multiple[k] false; a registration of a
\* new key, or one with overwrite=False, emits no warning.
C2_Overwrite ==
    [][ \A k \in Keys, v \in Values, o \in BOOLEAN :
          add_extra_key(k, v, o) =>
            /\ (k \in DOMAIN extra_keys /\ o) =>
                  /\ extra_keys'[k] = Scalar(v)
                  /\ multiple'[k] = FALSE
                  /\ warnings' = Append(warnings, OverwriteWarning(k))
            /\ ~(k \in DOMAIN extra_keys /\ o) => warnings' = warnings
      ]_vars

\* a key created, made multiple, then overwritten: one warning, a scalar
C2_Witness ==
    \E k \in DOMAIN extra_keys :
        /\ DOMAIN extra_keys = { k }
        /\ calls = 3
        /\ warnings = << OverwriteWarning(k) >>
        /\ Len(hist[k]) = 1
        /\ extra_keys[k] = Scalar(hist[k][1])
        /\ ~multiple[k]

\* C3 as stated: once a key is in multiple mode, every further
\* registration for it appends (so that it stays in multiple mode and the
\* change from single to multiple happens at most once).
C3_Original ==
    [][ \A k \in Keys, v \in Values, o \in BOOLEAN :
          (add_extra_key(k, v, o) /\ k \in DOMAIN multiple /\ multiple[k]) =>
            /\ multiple'[k]
            /\ extra_keys'[k] = List(Append(extra_keys[k].items, v))
      ]_vars

\* C3 as amended: a key in multiple mode appends on every non-overwriting
\* registration and falls back to single mode on an overwriting one; a key
\* changes from single to multiple only on a non-overwriting registration
\* that is the second since the key was created or last overwritten.
C3_Amended ==
    [][ \A k \in Keys, v \in Values, o \in BOOLEAN :
          add_extra_key(k, v, o) =>
            LET was_multiple == k \in DOMAIN multiple /\ multiple[k]
            IN  /\ (was_multiple /\ ~o) =>
                      /\ multiple'[k]
                      /\ extra_keys'[k] = List(Append(extra_keys[k].items, v))
                /\ (was_multiple /\ o) => ~multiple'[k]
                /\ (~was_multiple /\ multiple'[k]) =>
                      (~o /\ Len(hist'[k]) = 2)
      ]_vars

\* a key made multiple, overwritten, and made multiple a second time
C3_Witness ==
    \E k \in DOMAIN extra_keys :
        /\ DOMAIN extra_keys = { k }
        /\ calls = 4
        /\ Len(warnings) = 1
        /\ multiple[k]
        /\ Len(hist[k]) = 2

(***************************************************************************)
(* Properties of the finalizer (checked under Spec).                       *)
(***************************************************************************)
InSave == pc \notin { "start", "main", "terminated" }

RootPristine ==
    /\ dirs = {}
    /\ workfiles = {}
    /\ out_copies = {}
    /\ extra_files = {}
    /\ symlinks = {}
    /\ archive = NoArchive
    /\ \A s \in Streams : ~stream_copies[s].exists

\* C4: a save_experiment call made after a call has completed creates or
\* rewrites no archive, adds no index symlink and raises no error (stated
\* for a configured root).
C4_SecondCallNoOp ==
    [][ (completed >= 1 /\ root_set) =>
          /\ archive' = archive
          /\ symlinks' = symlinks
          /\ exc' = "none"
      ]_vars

\* C5: finalize on an Experiment on which nothing was registered creates
\* nothing under the root and raises nothing; it only goes through the
\* has_content test and _cleanup, after which both capture files are gone.
C5_NoContentFinalize ==
    ~has_content =>
        /\ RootPristine
        /\ exc = "none"
        /\ pc \in { "start", "main", "terminated", "save_check", "cleanup" }
        /\ (completed >= 1 => \A s \in Streams : ~capfile[s].exists)
        /\ (started > completed => InSave)

\* finalize has run to its end at exit with nothing registered
C5_Witness ==
    /\ pc = "terminated"
    /\ ~has_content
    /\ completed = 1
    /\ \A s \in Streams : ~capfile[s].exists

\* C6: save_experiment never raises.
C6_NeverRaises == exc = "none"

\* C7: whenever a save_experiment invocation has ended, both capture files
\* are deleted.
C7_CaptureFilesDeleted ==
    (started >= 1 /\ ~InSave) => \A s \in Streams : ~capfile[s].exists

\* C8: a declared output that does not exist at finalize time gets a
\* warning, no copy and no index symlink, and the loop goes on to the next
\* declared output without raising; a finalize that reaches its end has
\* written the archive, has warned about every missing declared output and
\* holds copies of existing declared outputs only.
C8_MissingOutputSkipped ==
    [][ /\ ( /\ pc = "save_output"
             /\ idx <= Len(output_files)
             /\ userfs[output_files[idx]] = "absent" ) =>
               /\ warnings' = Append(warnings,
                                     MissingOutputWarning(output_files[idx]))
               /\ out_copies' = out_copies
               /\ symlinks' = symlinks
               /\ exc' = "none"
               /\ pc' = "save_output"
               /\ idx' = idx + 1
        /\ (pc' = "cleanup" /\ has_content) =>
               /\ archive'.exists
               /\ \A i \in 1..Len(output_files) :
                    userfs[output_files[i]] = "absent" =>
                        MissingOutputWarning(output_files[i]) \in Range(warnings')
               /\ \A e \in archive'.outs :
                    \E i \in 1..Len(output_files) :
                        /\ Escape(output_files[i]) = e
                        /\ userfs[output_files[i]] = "file"
      ]_vars

\* a missing output declared before an existing one and an input: finalize
\* ended normally with the archive, the other copy and both symlinks
C8_Witness ==
    /\ pc = "terminated"
    /\ exc = "none"
    /\ completed = 1
    /\ Len(output_files) = 2
    /\ userfs[output_files[1]] = "absent"
    /\ userfs[output_files[2]] = "file"
    /\ Len(input_files) = 1
    /\ warnings = << MissingOutputWarning(output_files[1]) >>
    /\ archive.exists
    /\ archive.outs = { Escape(output_files[2]) }
    /\ symlinks = { << "out", Escape(output_files[2]) >>,
                    << "in", Escape(input_files[1]) >> }

\* C9: without a configured root the Experiment cannot be constructed, so
\* no registration and no finalize step executes.
C9_RootRequired == ~root_set => (calls = 0 /\ started = 0)

(***************************************************************************)
(* Properties of the stream capture (checked under SpecCapture).           *)
(***************************************************************************)
RECURSIVE IsSubseq(_, _)
IsSubseq(a, b) ==
    IF a = << >> THEN TRUE
    ELSE IF b = << >> THEN FALSE
    ELSE IF Head(a) = Head(b) THEN IsSubseq(Tail(a), Tail(b))
    ELSE IsSubseq(a, Tail(b))

\* C10: when finalize copies a capture file, the file holds every byte the
\* program wrote to that stream, in order, and each of these bytes has
\* reached the stream's original destination.
C10_CaptureComplete ==
    /\ (pc = "save_stdout" /\ capfile["stdout"].exists) =>
          /\ IsSubseq(written["stdout"], capfile["stdout"].data)
          /\ IsSubseq(written["stdout"], console["stdout"])
    /\ (pc = "save_stderr" /\ capfile["stderr"].exists) =>
          /\ IsSubseq(written["stderr"], capfile["stderr"].data)
          /\ IsSubseq(written["stderr"], console["stderr"])

(***************************************************************************)
(* Properties of the archive and of the index (checked under Spec).        *)
(***************************************************************************)
\* every index symlink is made with the archive path as its target
\* (experiment_path_targz, lines 222, 280, 290): it resolves when the
\* archive exists
SymlinksResolve == symlinks # {} => archive.exists

HasDuplicate(seq) ==
    \E i, j \in 1..Len(seq) : i < j /\ seq[i] = seq[j]

\* the file names every extra key is written under
AllEntryNames ==
    UNION { EntryNames(k, extra_keys[k], multiple[k]) : k \in DOMAIN extra_keys }

\* C11: when finalize completes on an Experiment with has_content true, the
\* archive exists, the working directory is gone and every declared output
\* that existed has its index symlink, which resolves to the archive.
C11_ArchiveAndIndex ==
    [][ (pc = "cleanup" /\ has_content /\ pc' # "cleanup") =>
          /\ archive'.exists
          /\ dirs' \cap WorkDirs = {}
          /\ workfiles' = {}
          /\ out_copies' = {}
          /\ extra_files' = {}
          /\ \A s \in Streams : ~stream_copies'[s].exists
          /\ \A i \in 1..Len(output_files) :
                userfs[output_files[i]] # "absent" =>
                    << "out", Escape(output_files[i]) >> \in symlinks'
          /\ SymlinksResolve'
      ]_vars

\* finalize ran once, at exit, to its end: archive, no working directory,
\* the symlink of an existing declared output
C11_Witness ==
    /\ pc = "terminated"
    /\ started = 1
    /\ completed = 1
    /\ has_content
    /\ archive.exists
    /\ dirs \cap WorkDirs = {}
    /\ \E i \in 1..Len(output_files) :
          /\ userfs[output_files[i]] = "file"
          /\ << "out", Escape(output_files[i]) >> \in symlinks

\* C12: an Experiment on which the same output path, or the same input
\* path, was declared more than once is finalized to the end: no error,
\* the archive, and the index entry of every declared path (stated for a
\* configured root, every declared path a regular file, one finalize).
C12_DuplicatesPermitted ==
    ( /\ pc = "terminated"
      /\ started = 1
      /\ root_set
      /\ \A p \in Paths : userfs[p] = "file"
      /\ (HasDuplicate(output_files) \/ HasDuplicate(input_files)) ) =>
        /\ exc = "none"
        /\ archive.exists
        /\ \A i \in 1..Len(output_files) :
              << "out", Escape(output_files[i]) >> \in symlinks
        /\ \A i \in 1..Len(input_files) :
              << "in", Escape(input_files[i]) >> \in symlinks

\* C17: once the Experiment is constructed, has_content is true exactly
\* when a registration operation has been called, and no step sets it back
\* to false.
C17_HasContent ==
    [][ /\ (has_content' <=> calls' >= 1)
        /\ (has_content => has_content')
      ]_vars

\* one registration made, before any finalize
C17_Witness ==
    /\ pc = "main"
    /\ started = 0
    /\ calls = 1
    /\ has_content
    /\ input_files # << >>

\* C19: when a save_experiment invocation has ended, normally or by a
\* failing step, no index symlink points at an archive that does not exist.
C19_NoDanglingSymlink ==
    (started >= 1 /\ ~InSave) => SymlinksResolve

\* C20: the archive is written after the source snapshot, meta.pickle, the
\* two stream copies, the output copies, input_files.pickle and every
\* extra-key entry are in the working directory, and holds them all; the
\* working directory is removed only once the archive holds its content;
\* a capture file of an Experiment with content is deleted only after its
\* copy is in the archive.
C20_StepOrder ==
    [][ /\ (pc = "save_tar" \/ pc = "save_rmtree") =>
              /\ archive'.exists
              /\ { "source/script", "meta.pickle", "input_files.pickle" }
                    \subseteq archive'.workfiles
              /\ \A s \in Streams : archive'.streams[s].exists
              /\ \A i \in 1..Len(output_files) :
                    userfs[output_files[i]] # "absent" =>
                        Escape(output_files[i]) \in archive'.outs
              /\ AllEntryNames \subseteq archive'.extras
        /\ pc = "save_rmtree" =>
              /\ archive.workfiles = workfiles
              /\ archive.streams = stream_copies
              /\ archive.outs = out_copies
              /\ archive.extras = extra_files
        /\ \A s \in Streams :
              (has_content /\ capfile[s].exists /\ ~capfile'[s].exists) =>
                  (archive.exists /\ archive.streams[s].exists)
      ]_vars

\* a finished finalize whose archive holds an output copy and the entries
\* of a key in multiple mode
C20_Witness ==
    /\ pc = "terminated"
    /\ completed = 1
    /\ archive.exists
    /\ archive.outs # {}
    /\ \E k \in DOMAIN extra_keys :
          /\ multiple[k]
          /\ archive.extras = { k \o << ".", "0" >>, k \o << ".", "1" >> }

(***************************************************************************)
(* Property of the path escaping (checked under SpecEscape).               *)
(***************************************************************************)
\* C13: any two distinct declared paths have distinct escaped names.
C13_EscapeInjective ==
    \A i, j \in 1..Len(output_files) :
        output_files[i] # output_files[j] =>
            Escape(output_files[i]) # Escape(output_files[j])

(***************************************************************************)
(* Names of the entries of a multiple key (checked under SpecNames).       *)
(***************************************************************************)
\* the characters of entry names, in code-point order
Alphabet == << "%", ".", "/", "0", "1", "2", "3", "4", "5", "6", "7", "8",
               "9", "a", "k", "m" >>

Ord(c) == CHOOSE i \in 1..Len(Alphabet) : Alphabet[i] = c

\* a < b as strings
LexLess(a, b) ==
    \E i \in 1..(Len(a) + 1) :
        /\ i <= Len(b)
        /\ \A j \in 1..(i - 1) : a[j] = b[j]
        /\ i <= Len(a) => Ord(a[i]) < Ord(b[i])

IsPrefix(p, s) == Len(p) <= Len(s) /\ \A i \in 1..Len(p) : s[i] = p[i]

\* C14: once the extra keys are written, a key in multiple mode holding n
\* elements has exactly n entries named <key>.<suffix>; the names have one
\* common length, are pairwise distinct, and sort lexicographically in the
\* order of the element indices.
C14_MultipleNames ==
    pc = "save_tar" =>
        \A key \in DOMAIN extra_keys :
            multiple[key] =>
                LET n == Len(extra_keys[key].items)
                    name(k) == EntryName(key, n, k)
                    I == 0..(n - 1)
                IN  /\ { f \in extra_files : IsPrefix(key \o << "." >>, f) }
                            = { name(k) : k \in I }
                    /\ Cardinality({ f \in extra_files :
                                        IsPrefix(key \o << "." >>, f) }) = n
                    /\ \A i, j \in I : Len(name(i)) = Len(name(j))
                    /\ \A i, j \in I : i # j => name(i) # name(j)
                    /\ \A i, j \in I : LexLess(name(i), name(j)) <=> i < j

\* ten or more elements under one key, so that the suffixes are two digits wide
C14_Witness ==
    /\ pc = "save_tar"
    /\ << "k" >> \in DOMAIN extra_keys
    /\ multiple[<< "k" >>]
    /\ Len(Str(Len(extra_keys[<< "k" >>].items))) = 2

\* SpecChecksum: one evaluation of eval_checksum on any of the targets
InitChecksum ==
    /\ root_set = TRUE
    /\ userfs = [p \in Paths |-> "file"]
    /\ InitProcess
    /\ NoRace
    /\ cpc = "call"
    /\ target \in Targets
    /\ stack = << >>
    /\ state = << >>
    /\ pos = 0
    /\ chunksize = 0
    /\ nchunks = 0
    /\ strategy = "none"
    /\ digest = XXH(<< >>)

NextChecksum == eval_checksum

SpecChecksum == InitChecksum /\ [][NextChecksum]_vars

(***************************************************************************)
(* Properties of eval_checksum (checked under SpecChecksum).               *)
(***************************************************************************)
\* C15: for a regular file, whatever memory is available (single read or
\* chunks of any size), the digest returned is the hash of the file's whole
\* byte sequence, and it equals the hash of another file's bytes exactly when
\* the two byte sequences are equal.
C15_FileDigest ==
    (cpc = "done" /\ target.kind = "file") =>
        /\ digest = XXH(target.data)
        /\ \A f \in BigFiles : digest = XXH(f.data) <=> f.data = target.data

\* a file read in more than one chunk
C15_Witness ==
    /\ cpc = "done"
    /\ target.kind = "file"
    /\ strategy = "chunked"
    /\ nchunks >= 2

\* the entries of a directory in name order
SortedListing(children) ==
    CHOOSE s \in Orders(children) :
        \A i, j \in 1..Len(s) : i < j => Ord(s[i].name) < Ord(s[j].name)

\* the bytes eval_checksum feeds the hash when every listing is in name order
RECURSIVE CanonicalBytes(_), ConcatBytes(_)
CanonicalBytes(node) ==
    IF node.kind = "file" THEN node.data
    ELSE IF node.kind = "dir" THEN ConcatBytes(SortedListing(node.children))
    ELSE << >>

ConcatBytes(listing) ==
    IF listing = << >> THEN << >>
    ELSE CanonicalBytes(Head(listing).node) \o ConcatBytes(Tail(listing))

\* C16: the digest of a directory does not depend on the order its listings
\* returned the entries in: it is the digest obtained when every listing is in
\* name order, which is a function of the tree's (name, content) pairs alone.
C16_OrderIndependent ==
    (cpc = "done" /\ target.kind = "dir") =>
        digest = XXH(CanonicalBytes(target))

(***************************************************************************)
(* Property of outpath (checked under SpecOutpath).                        *)
(***************************************************************************)
\* C18: outpath(p) with ensure_dir_exists=True creates nothing at abspath(p)
\* itself and registers abspath(p) as an output exactly once.
C18_Outpath ==
    [][ \A p \in OutpathArgs :
            outpath(p, TRUE) =>
                /\ userfs'[AbsPath(p)] = userfs[AbsPath(p)]
                /\ output_files' = Append(output_files, AbsPath(p)) ]_vars

(***************************************************************************)
(* Further properties of the extra-key store (checked under SpecStore).    *)
(***************************************************************************)
\* C21: add_extra_key on a key not yet in the store stores the value as a
\* scalar with multiple[key] false; every add_extra_key call leaves the value
\* and mode of every other key, and both path sequences, unchanged.
C21_NewKeyAndFrame ==
    [][ \A k \in Keys, v \in Values, o \in BOOLEAN :
          add_extra_key(k, v, o) =>
            /\ k \notin DOMAIN extra_keys =>
                  /\ extra_keys'[k] = Scalar(v)
                  /\ multiple'[k] = FALSE
            /\ DOMAIN extra_keys' = DOMAIN extra_keys \cup { k }
            /\ DOMAIN multiple' = DOMAIN multiple \cup { k }
            /\ \A other \in DOMAIN extra_keys \ { k } :
                  /\ extra_keys'[other] = extra_keys[other]
                  /\ multiple'[other] = multiple[other]
            /\ input_files' = input_files
            /\ output_files' = output_files
      ]_vars

\* a second key created beside a key already in multiple mode
C21_Witness ==
    /\ DOMAIN extra_keys = Keys
    /\ calls = 3
    /\ \E k, other \in Keys :
          /\ extra_keys[k] = Scalar(hist[k][1])
          /\ ~multiple[k]
          /\ multiple[other]
          /\ extra_keys[other] = List(hist[other])

\* C24: extra_keys and multiple always have the same key set, and a key in
\* multiple mode holds a list of at least two elements: the values registered
\* for it since it was created or last overwritten, in registration order.
C24_StoreInvariant ==
    /\ DOMAIN extra_keys = DOMAIN multiple
    /\ \A k \in DOMAIN multiple :
          multiple[k] =>
              /\ extra_keys[k].kind = "list"
              /\ Len(extra_keys[k].items) >= 2
              /\ extra_keys[k].items = hist[k]

\* a key overwritten and then brought to multiple mode again
C24_Witness ==
    \E k \in DOMAIN multiple :
        /\ multiple[k]
        /\ warnings # << >>
        /\ calls = 4
        /\ Len(extra_keys[k].items) = 2

(***************************************************************************)
(* The input-checksum mapping (checked under SpecInputs).                  *)
(***************************************************************************)
\* the mapping from each distinct declared input to the digest of what is at
\* its path now
CurrentDigests ==
    { << p, XXH(IF userfs[p] = "file" THEN content[p] ELSE << >>) >> :
        p \in Range(input_files) }

\* C22: the input_files.pickle finalize writes, and the copy of it in the
\* archive, hold exactly one entry per distinct declared input path, mapping
\* the path to the digest of its content as it is at finalize time.
C22_InputDigests ==
    /\ (pc = "save_input" /\ idx = 1) =>
          /\ input_pickle.exists
          /\ input_pickle.items = CurrentDigests
          /\ Cardinality(input_pickle.items) = Cardinality(Range(input_files))
    /\ pc = "save_rmtree" =>
          /\ archive.inputs.exists
          /\ archive.inputs.items = CurrentDigests

\* one path declared twice and rewritten since the process started
C22_Witness ==
    /\ pc = "save_input"
    /\ idx = 1
    /\ \E p \in Paths :
          /\ input_files = << p, p >>
          /\ userfs[p] = "file"
          /\ content[p] # InitialContent
          /\ input_pickle.items = { << p, XXH(content[p]) >> }

(***************************************************************************)
(* The chunk loop of eval_checksum (checked under FairSpecChecksum: the    *)
(* function is sequential code, so a step that can be taken is taken).     *)
(***************************************************************************)
FairSpecChecksum == SpecChecksum /\ WF_vars(NextChecksum)

\* the last n elements of a sequence
Last(seq, n) == SubSeq(seq, Len(seq) - n + 1, Len(seq))

\* while a file is read in chunks: the chunk size is at least the block size,
\* what was fed so far is the file's first `pos` bytes, in file order, and a
\* read returns nothing only at the end of the file
ChunkLoopInv ==
    cpc = "chunks" =>
        LET data == Head(stack).data
        IN  /\ chunksize >= BlockSize
            /\ chunksize > 0
            /\ pos <= Len(data)
            /\ Len(state) >= pos
            /\ Last(state, pos) = SubSeq(data, 1, pos)
            /\ ReadChunk(data, pos, chunksize) = << >> => pos = Len(data)

\* C23: in the chunked branch the chunk size is at least the hash block size
\* for every available-memory value, and the read loop ends, having fed each
\* byte of the file to the hash state exactly once, in file order.
C23_ChunkLoopTerminates ==
    /\ []ChunkLoopInv
    /\ (cpc = "chunks") ~> (cpc = "visit")
    /\ [][ (cpc = "chunks" /\ cpc' = "visit") =>
              Last(state', Len(Head(stack).data)) = Head(stack).data ]_vars

\* a file of more than two blocks read to its end in chunks of one block
C23_Witness ==
    /\ cpc = "chunks"
    /\ chunksize = BlockSize
    /\ nchunks >= 3
    /\ pos = Len(Head(stack).data)

(***************************************************************************)
(* File names under extra_keys/ (checked under SpecKeys).                  *)
(***************************************************************************)
\* the entries finalize writes: <<key, -1>> for a single key, <<key, index>>
\* for each element of a multiple key
Entries ==
    UNION { IF multiple[k]
            THEN { << k, i >> : i \in 0..(Len(extra_keys[k].items) - 1) }
            ELSE { << k, -1 >> } : k \in DOMAIN extra_keys }

\* the files an entry is written to
FilesOfEntry(e) ==
    LET k == e[1]
    IN  IF multiple[k]
        THEN FilesOf(EntryName(k, Len(extra_keys[k].items), e[2]),
                     extra_keys[k].items[e[2] + 1])
        ELSE FilesOf(k, extra_keys[k].val)

\* C25: when the extra keys are written, no two distinct entries (a single
\* key, an element of a multiple key) are written to the same file name, the
\* '.read' companions of Artifact entries included.
C25_EntryFilesDistinct ==
    pc = "save_tar" =>
        \A e1, e2 \in Entries :
            e1 # e2 => FilesOfEntry(e1) \cap FilesOfEntry(e2) = {}

(***************************************************************************)
(* Two concurrent finalizations (checked under SpecRace).                  *)
(***************************************************************************)
\* C26: two processes finalizing concurrently under one root, both having
\* declared the same output path: no ensure_dir_exists fails, and when both
\* have returned both archives and both index symlinks exist and neither
\* working directory remains.
C26_ConcurrentFinalize ==
    /\ \A q \in Procs : pexc[q] = "none" /\ ppc[q] # "raised"
    /\ (\A q \in Procs : ppc[q] = "returned") =>
          /\ rsymlinks = Procs
          /\ rarchives = Procs
          /\ \A q \in Procs : OwnDir(q) \notin rdirs

(***************************************************************************)
(* What eval_checksum feeds the hash (checked under SpecChecksum).         *)
(***************************************************************************)
\* the byte sequences a walk of the node can feed, one per choice of listing
\* orders: the bytes of the regular files reached, concatenated, nothing else
RECURSIVE WalkBytes(_), ListingBytes(_)
WalkBytes(node) ==
    IF node.kind = "file" THEN { node.data }
    ELSE IF node.kind = "dir"
         THEN UNION { ListingBytes(l) : l \in Orders(node.children) }
         ELSE { << >> }

ListingBytes(listing) ==
    IF listing = << >> THEN { << >> }
    ELSE { a \o b : a \in WalkBytes(Head(listing).node),
                    b \in ListingBytes(Tail(listing)) }

\* C27: the digest returned is the hash of the concatenation of the bytes of
\* the regular files the walk reached, in a listing order, with no name and
\* no boundary fed; a path that does not exist, an empty file and an empty
\* directory all get the digest of the empty byte sequence.
C27_FedBytes ==
    cpc = "done" =>
        /\ digest \in { XXH(b) : b \in WalkBytes(target) }
        /\ target \in { OtherNode, FileNode(<< >>), DirNode({}) } =>
              digest = XXH(<< >>)

\* a directory holding a file and a directory of two files, wholly walked
C27_Witness ==
    /\ cpc = "done"
    /\ target \in DeepDirs
    /\ Len(state) = 3
    /\ digest = XXH(state)

(***************************************************************************)
(* Type errors of the utility functions (checked under SpecUtils).         *)
(***************************************************************************)
\* what a rejected call must leave alone: the Experiment and the file system
Untouched ==
    UNCHANGED << has_content, output_files, input_files, extra_keys, multiple,
                 userfs, content, root_vars, capfile >>

\* C28: log_input_file, log_output_file, inpath and outpath called with a
\* path that is neither str nor Path, and log_extra, log_metric and
\* log_ndarray called with a key that is not a str, raise TypeError and leave
\* the Experiment state and the file system unchanged.
C28_TypeErrors ==
    [][ /\ \A arg \in PathArgs, e \in BOOLEAN :
              (/\ arg.type \notin { "str", "Path" }
               /\ \/ log_input_file(arg) \/ log_output_file(arg)
                  \/ inpath(arg) \/ outpath_checked(arg, e))
              => (exc' = "TypeError" /\ Untouched)
        /\ \A key \in KeyArgs, value \in Values, o \in BOOLEAN :
              (/\ key.type # "str"
               /\ \/ log_extra(value, key) \/ log_metric(value, key)
                  \/ log_ndarray(key, o))
              => (exc' = "TypeError" /\ Untouched)
      ]_vars

\* a call rejected after one registration was made: the registration stands
C28_Witness ==
    /\ pc = "main"
    /\ exc = "TypeError"
    /\ calls = 1
    /\ has_content
    /\ Len(output_files) + Len(input_files) + Cardinality(DOMAIN extra_keys) = 1

(***************************************************************************)
(* Frame of the path registrations (checked under SpecStore).              *)
(***************************************************************************)
\* C29: add_output_file(p) appends p at the end of output_files and
\* add_input_file(p) appends p at the end of input_files; each sets
\* has_content and changes nothing else: not the other sequence, not
\* extra_keys or multiple, not the capture files, not the file system.
C29_PathFrame ==
    [][ \A p \in Paths :
          /\ add_output_file(p) =>
                /\ output_files' = Append(output_files, p)
                /\ has_content'
                /\ UNCHANGED << input_files, extra_keys, multiple, capfile,
                                userfs, content, root_vars, warnings, pc,
                                control_vars, stream_vars >>
          /\ add_input_file(p) =>
                /\ input_files' = Append(input_files, p)
                /\ has_content'
                /\ UNCHANGED << output_files, extra_keys, multiple, capfile,
                                userfs, content, root_vars, warnings, pc,
                                control_vars, stream_vars >>
      ]_vars

\* two different outputs and an input declared beside an extra key
C29_Witness ==
    /\ Len(output_files) = 2
    /\ output_files[1] # output_files[2]
    /\ Len(input_files) = 1
    /\ DOMAIN extra_keys # {}
    /\ calls = 4

====
